---- MODULE Spec2Model ----
(***************************************************************************)
(* Model of the blog application's view layer (blogicum/blog/views.py):    *)
(* the post-visibility querysets, the comment annotation, and one action   *)
(* per view.  The database (posts, comments, categories) and the clock are *)
(* the state; every HTTP request is one atomic step against the store that *)
(* records the request and the response it produced, and the response is   *)
(* delivered before the next request is taken.  The name and e-mail fields *)
(* of a user, and the title, text, location and image of a post, are read  *)
(* by no view logic and are not part of the state.                         *)
(***************************************************************************)
EXTENDS Integers, Sequences, FiniteSets, TLC

\* ---------------------------------------------------------------- bounds
MaxPosts == 2
MaxComments == 1
MaxTime == 2

\* ListView.paginate_by / Paginator(queryset, 10)
paginate_by == 10

\* ------------------------------------------------------------ value sets
Users == {"alice", "bob"}
Anonymous == "AnonymousUser"
None == "None"
Requesters == Users \cup {Anonymous}
\* usernames that may appear in a profile path; "ghost" matches no user
Usernames == Users \cup {"ghost"}
\* slugs that may appear in a category path; "missing" matches no category
Slugs == {"tech", "drafts", "missing"}
Texts == {"t1", "t2"}
Methods == {"GET", "POST"}
\* ids that may appear in a path; MaxPosts + 1 is never allocated
PathPostIds == 1..(MaxPosts + 1)
PathCommentIds == 1..(MaxComments + 1)

VARIABLES posts, comments, next_post_id, next_comment_id, categories,
          now, request, response

db == <<posts, comments, next_post_id, next_comment_id, categories>>
vars == <<posts, comments, next_post_id, next_comment_id, categories,
          now, request, response>>

\* ------------------------------------------------------------ forms.py
\* PostForm: the fields that gate visibility (is_published, pub_date,
\* category); author is not a form field.  One representative invalid
\* submission stands for every form that fails validation.
PostFormData ==
    [is_valid : {TRUE}, is_published : BOOLEAN, pub_date : 1..MaxTime,
     category : {"tech", "drafts"}]
    \cup {[is_valid |-> FALSE, is_published |-> FALSE, pub_date |-> 1,
           category |-> "tech"]}

\* CommentForm: fields = ('text',)
CommentFormData ==
    [is_valid : {TRUE}, text : Texts] \cup {[is_valid |-> FALSE, text |-> "t1"]}

\* ProfileEditForm: only whether the submission validates matters here
ProfileFormData == [is_valid : BOOLEAN]

\* what a client sends: a GET carries no form, a POST carries one
Submissions(forms) ==
    {s \in [method : Methods, form : forms] :
        s.method = "GET" => s.form = CHOOSE f \in forms : ~f.is_valid}

\* ------------------------------------------------------ requests, responses
Req(route, user, id, name) ==
    [route |-> route, user |-> user, id |-> id, name |-> name]

NoRequest == Req("none", Anonymous, 0, "")

Resp(status, page, id, name, error, listing) ==
    [status |-> status, page |-> page, id |-> id, name |-> name,
     error |-> error, listing |-> listing]

\* a rendered template
Render(listing) == Resp("ok", "", 0, "", FALSE, listing)
\* raise Http404 / get_object_or_404 failing
Http404 == Resp("not_found", "", 0, "", FALSE, <<>>)
\* LoginRequiredMixin.handle_no_permission for an unauthenticated user
RedirectToLogin == Resp("redirect", "login", 0, "", FALSE, <<>>)
\* redirect('blog:post_detail', post_id=id); error: messages.error was called
RedirectToPostDetail(id, error) ==
    Resp("redirect", "post_detail", id, "", error, <<>>)
RedirectToProfile(username) ==
    Resp("redirect", "profile", 0, username, FALSE, <<>>)
RedirectToIndex == Resp("redirect", "index", 0, "", FALSE, <<>>)
ServerError == Resp("server_error", "", 0, "", FALSE, <<>>)
NoResponse == Resp("none", "", 0, "", FALSE, <<>>)

\* the server is between two exchanges
Idle == request = NoRequest

\* ------------------------------------------------------------- the store
Init ==
    /\ posts = <<>>
    /\ comments = <<>>
    /\ next_post_id = 1
    /\ next_comment_id = 1
    /\ categories = [s \in {"tech", "drafts"} |->
                        [is_published |-> (s = "tech")]]
    /\ now = 1
    /\ request = NoRequest
    /\ response = NoResponse

\* Model.objects.filter(pk=...).delete() on a table held as a function
Without(table, id) == [k \in DOMAIN table \ {id} |-> table[k]]

\* the deletion of a post takes the comments that reference it with it
\* (the foreign key Comment.post)
comments_after_post_delete(post_id) ==
    [c \in {k \in DOMAIN comments : comments[k].post # post_id} |-> comments[c]]

\* ------------------------------------------------- get_posts_queryset
\* mutant: the narrowing forgets is_published=True
queryset_for_user_by_date_only(for_user, current_user) ==
    LET queryset == {p \in DOMAIN posts : posts[p].author = for_user}
    IN  IF current_user # None /\ current_user # for_user
        THEN {p \in queryset : posts[p].pub_date <= now}
        ELSE queryset

\* branch `if for_user:` -- for_user.posts.all(), narrowed for a viewer
\* other than for_user.  request.user is passed as current_user: an
\* AnonymousUser object is truthy and differs from every user.
queryset_for_user(for_user, current_user) ==
    LET queryset == {p \in DOMAIN posts : posts[p].author = for_user}
    IN  IF current_user # None /\ current_user # for_user
        THEN {p \in queryset : /\ posts[p].pub_date <= now
                               /\ posts[p].is_published}
        ELSE queryset

\* mutant: the lookup drops is_published=True
category_or_404_any(category_slug) == category_slug \in DOMAIN categories

\* get_object_or_404(Category, slug=category_slug, is_published=True)
category_or_404(category_slug) ==
    /\ category_slug \in DOMAIN categories
    /\ categories[category_slug].is_published

\* branch `elif category_slug:` after the category was resolved
queryset_for_category(category_slug) ==
    {p \in DOMAIN posts : /\ posts[p].category = category_slug
                          /\ posts[p].is_published
                          /\ posts[p].pub_date <= now}

\* branch `else:` -- the global feed
queryset_feed ==
    {p \in DOMAIN posts : /\ posts[p].pub_date <= now
                          /\ posts[p].is_published
                          /\ categories[posts[p].category].is_published}

\* the whole function: [raised |-> TRUE] stands for Http404
get_posts_queryset(for_user, category_slug, current_user) ==
    IF for_user # None
    THEN [raised |-> FALSE, ids |-> queryset_for_user(for_user, current_user)]
    ELSE IF category_slug # None
    THEN IF category_or_404(category_slug)
         THEN [raised |-> FALSE, ids |-> queryset_for_category(category_slug)]
         ELSE [raised |-> TRUE, ids |-> {}]
    ELSE [raised |-> FALSE, ids |-> queryset_feed]

\* --------------------------------------------------- annotate_comments
\* the database leaves the order of rows with equal pub_date open: a tie
\* order (a ranking of the ids) chosen per query decides it
TieOrders ==
    {t \in [1..MaxPosts -> 1..MaxPosts] :
        \A a, b \in 1..MaxPosts : a # b => t[a] # t[b]}

\* Count('comments')
comment_count(post_id) ==
    Cardinality({c \in DOMAIN comments : comments[c].post = post_id})

\* mutant: order_by('pub_date'), ascending
comes_before_ascending(p, q, tie) ==
    \/ posts[p].pub_date < posts[q].pub_date
    \/ posts[p].pub_date = posts[q].pub_date /\ tie[p] < tie[q]

\* .order_by('-pub_date'): does row p come before row q
comes_before(p, q, tie) ==
    \/ posts[p].pub_date > posts[q].pub_date
    \/ posts[p].pub_date = posts[q].pub_date /\ tie[p] < tie[q]

RECURSIVE order_by(_, _)
order_by(queryset, tie) ==
    IF queryset = {} THEN <<>>
    ELSE LET first == CHOOSE p \in queryset :
                        \A q \in queryset \ {p} : comes_before(p, q, tie)
         IN  <<first>> \o order_by(queryset \ {first}, tie)

annotate_comments(queryset, tie) ==
    LET ordered == order_by(queryset, tie)
    IN  [i \in 1..Len(ordered) |->
            [id |-> ordered[i], comment_count |-> comment_count(ordered[i])]]

\* Paginator(queryset, paginate_by).get_page(1)
first_page(rows) ==
    SubSeq(rows, 1, IF Len(rows) < paginate_by THEN Len(rows) ELSE paginate_by)

\* ------------------------------------------------------------ read views
\* PostsListView.get_queryset
PostsListView(user, tie) ==
    /\ Idle
    /\ request' = Req("index", user, 0, "")
    /\ response' = Render(first_page(annotate_comments(
                        get_posts_queryset(None, None, None).ids, tie)))
    /\ UNCHANGED <<db, now>>

\* mutant: the category's flag is not consulted
detail_allowed_without_category(user, post) ==
    IF user = post.author THEN TRUE
    ELSE /\ post.is_published
         /\ post.pub_date <= now

\* PostDetailView.get_object: may `user` see the loaded post
detail_allowed(user, post) ==
    IF user = post.author THEN TRUE
    ELSE /\ post.is_published
         /\ post.pub_date <= now
         /\ categories[post.category].is_published

PostDetailView(user, post_id) ==
    /\ Idle
    /\ request' = Req("post_detail", user, post_id, "")
    /\ response' = IF post_id \notin DOMAIN posts THEN Http404
                   ELSE IF detail_allowed(user, posts[post_id])
                        THEN Render(<<>>)
                        ELSE Http404
    /\ UNCHANGED <<db, now>>

\* CategoryListView.get_queryset
CategoryListView(user, category_slug, tie) ==
    /\ Idle
    /\ request' = Req("category_posts", user, 0, category_slug)
    /\ response' =
          IF ~category_or_404(category_slug) THEN Http404
          ELSE LET queryset == get_posts_queryset(None, category_slug, None)
               IN  IF queryset.raised THEN Http404
                   ELSE Render(first_page(annotate_comments(queryset.ids, tie)))
    /\ UNCHANGED <<db, now>>

\* ProfileDetailView.get_object + get_context_data
ProfileDetailView(user, username, tie) ==
    /\ Idle
    /\ request' = Req("profile", user, 0, username)
    /\ response' =
          IF username \notin Users THEN Http404
          ELSE Render(first_page(annotate_comments(
                          get_posts_queryset(username, None, user).ids, tie)))
    /\ UNCHANGED <<db, now>>

\* ----------------------------------------------------------- write views
\* PostCreateView.form_valid: the instance that is saved
post_form_valid(form, user) ==
    [author |-> user, is_published |-> form.is_published,
     pub_date |-> form.pub_date, category |-> form.category]

\* PostCreateView (LoginRequiredMixin, CreateView)
PostCreateView(user, method, form) ==
    /\ Idle
    /\ request' = Req("create_post", user, 0, "")
    /\ IF user = Anonymous
       THEN /\ response' = RedirectToLogin
            /\ UNCHANGED <<db, now>>
       ELSE IF method = "GET" \/ ~form.is_valid
       THEN /\ response' = Render(<<>>)
            /\ UNCHANGED <<db, now>>
       ELSE /\ next_post_id <= MaxPosts
            /\ posts' = posts @@ (next_post_id :> post_form_valid(form, user))
            /\ next_post_id' = next_post_id + 1
            /\ response' = RedirectToProfile(user)
            /\ UNCHANGED <<comments, next_comment_id, categories, now>>

\* PostUpdateView.dispatch: `if request.user != post.author`
post_update_rejects(user, post) == user # post.author

\* PostUpdateView (LoginRequiredMixin, UpdateView); dispatch loads the post
\* and checks the owner before LoginRequiredMixin.dispatch runs
PostUpdateView(user, method, post_id, form) ==
    /\ Idle
    /\ request' = Req("edit_post", user, post_id, "")
    /\ IF post_id \notin DOMAIN posts
       THEN /\ response' = Http404
            /\ UNCHANGED <<db, now>>
       ELSE IF post_update_rejects(user, posts[post_id])
       THEN /\ response' = RedirectToPostDetail(post_id, TRUE)
            /\ UNCHANGED <<db, now>>
       ELSE IF user = Anonymous
       THEN /\ response' = RedirectToLogin
            /\ UNCHANGED <<db, now>>
       ELSE IF method = "GET" \/ ~form.is_valid
       THEN /\ response' = Render(<<>>)
            /\ UNCHANGED <<db, now>>
       ELSE /\ posts' = [posts EXCEPT ![post_id] =
                            [@ EXCEPT !.is_published = form.is_published,
                                      !.pub_date = form.pub_date,
                                      !.category = form.category]]
            /\ response' = RedirectToPostDetail(post_id, FALSE)
            /\ UNCHANGED <<comments, next_post_id, next_comment_id,
                           categories, now>>

\* PostDeleteView.dispatch: `if request.user != post.author`
post_delete_rejects(user, post) == user # post.author

\* PostDeleteView (LoginRequiredMixin, DeleteView)
PostDeleteView(user, method, post_id) ==
    /\ Idle
    /\ request' = Req("delete_post", user, post_id, "")
    /\ IF post_id \notin DOMAIN posts
       THEN /\ response' = Http404
            /\ UNCHANGED <<db, now>>
       ELSE IF post_delete_rejects(user, posts[post_id])
       THEN /\ response' = RedirectToPostDetail(post_id, TRUE)
            /\ UNCHANGED <<db, now>>
       ELSE IF user = Anonymous
       THEN /\ response' = RedirectToLogin
            /\ UNCHANGED <<db, now>>
       ELSE IF method = "GET"
       THEN /\ response' = Render(<<>>)
            /\ UNCHANGED <<db, now>>
       ELSE /\ posts' = Without(posts, post_id)
            /\ comments' = comments_after_post_delete(post_id)
            /\ response' = RedirectToIndex
            /\ UNCHANGED <<next_post_id, next_comment_id, categories, now>>

\* mutant: the author stamped is the post's author, not the requester
comment_form_valid_post_author(form, user, object_post) ==
    [author |-> posts[object_post].author, post |-> object_post,
     text |-> form.text]

\* CommentCreateView.form_valid: the instance that is saved
comment_form_valid(form, user, object_post) ==
    [author |-> user, post |-> object_post, text |-> form.text]

\* CommentCreateView (LoginRequiredMixin, CreateView); dispatch resolves the
\* post before LoginRequiredMixin.dispatch runs.  A GET or an invalid POST
\* renders through get_context_data, which reads self.post (never assigned
\* to a Post): whether the template renders is open.
CommentCreateView(user, method, post_id, form, renders) ==
    /\ Idle
    /\ request' = Req("add_comment", user, post_id, "")
    /\ IF post_id \notin DOMAIN posts
       THEN /\ response' = Http404
            /\ UNCHANGED <<db, now>>
       ELSE IF user = Anonymous
       THEN /\ response' = RedirectToLogin
            /\ UNCHANGED <<db, now>>
       ELSE IF method = "GET" \/ ~form.is_valid
       THEN /\ response' = IF renders THEN Render(<<>>) ELSE ServerError
            /\ UNCHANGED <<db, now>>
       ELSE /\ next_comment_id <= MaxComments
            /\ comments' = comments @@
                  (next_comment_id :> comment_form_valid(form, user, post_id))
            /\ next_comment_id' = next_comment_id + 1
            /\ response' = RedirectToPostDetail(post_id, FALSE)
            /\ UNCHANGED <<posts, next_post_id, categories, now>>

\* CommentUpdateView.dispatch: `if request.user != comment.author`
comment_update_rejects(user, comment) == user # comment.author

\* CommentUpdateView.dispatch: redirect('blog:post_detail',
\* post_id=comment.post.id)
comment_update_reject_target(comment_id) == comments[comment_id].post

\* CommentUpdateView (LoginRequiredMixin, UpdateView); the object is looked
\* up by comment_id alone, post_id of the path is used by get_success_url
CommentUpdateView(user, method, post_id, comment_id, form) ==
    /\ Idle
    /\ request' = Req("edit_comment", user, comment_id, "")
    /\ IF comment_id \notin DOMAIN comments
       THEN /\ response' = Http404
            /\ UNCHANGED <<db, now>>
       ELSE IF comment_update_rejects(user, comments[comment_id])
       THEN /\ response' = RedirectToPostDetail(
                               comment_update_reject_target(comment_id), TRUE)
            /\ UNCHANGED <<db, now>>
       ELSE IF user = Anonymous
       THEN /\ response' = RedirectToLogin
            /\ UNCHANGED <<db, now>>
       ELSE IF method = "GET" \/ ~form.is_valid
       THEN /\ response' = Render(<<>>)
            /\ UNCHANGED <<db, now>>
       ELSE /\ comments' = [comments EXCEPT ![comment_id].text = form.text]
            /\ response' = RedirectToPostDetail(post_id, FALSE)
            /\ UNCHANGED <<posts, next_post_id, next_comment_id, categories, now>>

\* mutant: the owner check is missing, only the login check remains
comment_delete_rejects_nobody(user, comment) == FALSE

\* CommentDeleteView.dispatch: `if request.user != comment.author`
comment_delete_rejects(user, comment) == user # comment.author

\* CommentDeleteView.dispatch: redirect('blog:post_detail',
\* post_id=comment.id)
comment_delete_reject_target(comment_id) == comment_id

\* CommentDeleteView (LoginRequiredMixin, DeleteView)
CommentDeleteView(user, method, comment_id) ==
    /\ Idle
    /\ request' = Req("delete_comment", user, comment_id, "")
    /\ IF comment_id \notin DOMAIN comments
       THEN /\ response' = Http404
            /\ UNCHANGED <<db, now>>
       ELSE IF comment_delete_rejects(user, comments[comment_id])
       THEN /\ response' = RedirectToPostDetail(
                               comment_delete_reject_target(comment_id), TRUE)
            /\ UNCHANGED <<db, now>>
       ELSE IF user = Anonymous
       THEN /\ response' = RedirectToLogin
            /\ UNCHANGED <<db, now>>
       ELSE IF method = "GET"
       THEN /\ response' = Render(<<>>)
            /\ UNCHANGED <<db, now>>
       ELSE /\ comments' = Without(comments, comment_id)
            /\ response' = RedirectToPostDetail(comments[comment_id].post, FALSE)
            /\ UNCHANGED <<posts, next_post_id, next_comment_id, categories, now>>

\* ProfileUpdateView (LoginRequiredMixin, UpdateView): get_object is
\* request.user, so the only row written is the requester's own
ProfileUpdateView(user, method, form) ==
    /\ Idle
    /\ request' = Req("edit_profile", user, 0, "")
    /\ response' = IF user = Anonymous THEN RedirectToLogin
                   ELSE IF method = "GET" \/ ~form.is_valid THEN Render(<<>>)
                   ELSE RedirectToProfile(user)
    /\ UNCHANGED <<db, now>>

\* the response reaches the client; the exchange is over
Deliver ==
    /\ ~Idle
    /\ request' = NoRequest
    /\ response' = NoResponse
    /\ UNCHANGED <<db, now>>

\* timezone.now() advances between requests
Tick ==
    /\ Idle
    /\ now < MaxTime
    /\ now' = now + 1
    /\ UNCHANGED <<db, request, response>>

Next ==
    \/ \E user \in Requesters, tie \in TieOrders : PostsListView(user, tie)
    \/ \E user \in Requesters, post_id \in PathPostIds :
          PostDetailView(user, post_id)
    \/ \E user \in Requesters, slug \in Slugs, tie \in TieOrders :
          CategoryListView(user, slug, tie)
    \/ \E user \in Requesters, username \in Usernames, tie \in TieOrders :
          ProfileDetailView(user, username, tie)
    \/ \E user \in Requesters, s \in Submissions(PostFormData) :
          PostCreateView(user, s.method, s.form)
    \/ \E user \in Requesters, post_id \in PathPostIds,
          s \in Submissions(PostFormData) :
          PostUpdateView(user, s.method, post_id, s.form)
    \/ \E user \in Requesters, method \in Methods, post_id \in PathPostIds :
          PostDeleteView(user, method, post_id)
    \/ \E user \in Requesters, post_id \in PathPostIds,
          s \in Submissions(CommentFormData), renders \in BOOLEAN :
          CommentCreateView(user, s.method, post_id, s.form, renders)
    \/ \E user \in Requesters, post_id \in PathPostIds,
          comment_id \in PathCommentIds, s \in Submissions(CommentFormData) :
          CommentUpdateView(user, s.method, post_id, comment_id, s.form)
    \/ \E user \in Requesters, method \in Methods,
          comment_id \in PathCommentIds :
          CommentDeleteView(user, method, comment_id)
    \/ \E user \in Requesters, s \in Submissions(ProfileFormData) :
          ProfileUpdateView(user, s.method, s.form)
    \/ Deliver
    \/ Tick

Spec == Init /\ [][Next]_vars

\* =================================================================== claims
\* the glossary's "public visibility" of a post
PubliclyVisible(post) ==
    /\ post.is_published
    /\ post.pub_date <= now
    /\ categories[post.category].is_published

\* the post ids a rendered listing shows
Listed == {response.listing[i].id : i \in 1..Len(response.listing)}

ListingRoutes == {"index", "category_posts", "profile"}
PostGatedRoutes == {"edit_post", "delete_post"}
CommentGatedRoutes == {"edit_comment", "delete_comment"}

\* C1: a post detail request succeeds exactly when the post exists and the
\* requester is its author or the post is published, not future-dated and in
\* a published category; every other outcome is "not found".
C1_PostDetailAccess ==
    request.route = "post_detail" =>
        LET granted ==
                /\ request.id \in DOMAIN posts
                /\ \/ request.user = posts[request.id].author
                   \/ PubliclyVisible(posts[request.id])
        IN  /\ response.status \in {"ok", "not_found"}
            /\ response.status = "ok" <=> granted

\* C1 witness: a non-author was refused an existing hidden post
C1_Witness ==
    /\ request.route = "post_detail"
    /\ request.id \in DOMAIN posts
    /\ request.user \in Users
    /\ request.user # posts[request.id].author
    /\ ~PubliclyVisible(posts[request.id])
    /\ response.status = "not_found"

\* C2: no listing (feed, category, profile) shows a requester a post of
\* another author that is unpublished, future-dated or in an unpublished
\* category.
C2_ListingsShowOthersOnlyPublic ==
    (request.route \in ListingRoutes /\ response.status = "ok") =>
        \A p \in Listed :
            request.user # posts[p].author => PubliclyVisible(posts[p])

C4_RejectionTarget ==
    /\ (/\ request.route \in PostGatedRoutes
        /\ request.id \in DOMAIN posts
        /\ request.user # posts[request.id].author)
          => response = RedirectToPostDetail(request.id, TRUE)
    /\ (/\ request.route \in CommentGatedRoutes
        /\ request.id \in DOMAIN comments
        /\ request.user # comments[request.id].author)
          => response = RedirectToPostDetail(comments[request.id].post, TRUE)

\* C5: an anonymous requester of a create, update or delete route on an
\* existing target is redirected to the login flow.
C5_AnonymousRedirectedToLogin ==
    (/\ request.user = Anonymous
     /\ \/ request.route \in {"create_post", "edit_profile"}
        \/ request.route \in PostGatedRoutes \cup {"add_comment"}
              /\ request.id \in DOMAIN posts
        \/ request.route \in CommentGatedRoutes
              /\ request.id \in DOMAIN comments)
        => response = RedirectToLogin

\* C6: the category listing is "not found" for an unpublished or unknown
\* category whoever asks, and for a published category lists exactly its
\* posts with is_published and pub_date <= now.
C6_CategoryListing ==
    request.route = "category_posts" =>
        IF /\ request.name \in DOMAIN categories
           /\ categories[request.name].is_published
        THEN /\ response.status = "ok"
             /\ Listed = {p \in DOMAIN posts :
                            /\ posts[p].category = request.name
                            /\ posts[p].is_published
                            /\ posts[p].pub_date <= now}
             /\ Len(response.listing) = Cardinality(Listed)
        ELSE response = Http404

\* C6 witness: the author of a published post in an unpublished category
\* asked for that category and got "not found"
C6_Witness ==
    /\ request.route = "category_posts"
    /\ request.name \in DOMAIN categories
    /\ ~categories[request.name].is_published
    /\ \E p \in DOMAIN posts :
          /\ posts[p].category = request.name
          /\ posts[p].author = request.user
          /\ posts[p].is_published
          /\ posts[p].pub_date <= now
    /\ response.status = "not_found"

\* C7: for a requester who is not the author, every route that names a post
\* by id answers for an existing hidden post what it answers for an id that
\* does not exist: "not found".
C7_HiddenAsAbsent ==
    (/\ request.route \in {"post_detail", "edit_post", "delete_post",
                           "add_comment"}
     /\ request.id \in DOMAIN posts
     /\ request.user # posts[request.id].author
     /\ ~PubliclyVisible(posts[request.id]))
        => response = Http404

\* C8: the profile page of U lists all of U's posts to U, and to anyone
\* else exactly U's posts with is_published and pub_date <= now.
C8_ProfileContents ==
    (request.route = "profile" /\ request.name \in Users) =>
        /\ response.status = "ok"
        /\ Len(response.listing) = Cardinality(Listed)
        /\ Listed =
             IF request.user = request.name
             THEN {p \in DOMAIN posts : posts[p].author = request.name}
             ELSE {p \in DOMAIN posts : /\ posts[p].author = request.name
                                        /\ posts[p].is_published
                                        /\ posts[p].pub_date <= now}

\* C8 witness: another user's profile was listed and an unpublished or
\* future-dated post of that user was left out
C8_Witness ==
    /\ request.route = "profile"
    /\ request.name \in Users
    /\ request.user # request.name
    /\ response.status = "ok"
    /\ \E p \in DOMAIN posts :
          /\ posts[p].author = request.name
          /\ ~posts[p].is_published \/ posts[p].pub_date > now
          /\ p \notin Listed

\* C9: a post appears only through post creation, with the requester as
\* author; a comment appears only through comment creation, with the
\* requester as author and the path's post as post; comment creation on an
\* absent post is "not found" and stores nothing; ids are not reused and no
\* later step changes an author or a comment's post.
C9_CreationStampsIdentity ==
    [][ LET r == request'
        IN  /\ \A p \in DOMAIN posts' \ DOMAIN posts :
                  /\ r.route = "create_post"
                  /\ r.user \in Users
                  /\ posts'[p].author = r.user
                  /\ p = next_post_id
            /\ \A c \in DOMAIN comments' \ DOMAIN comments :
                  /\ r.route = "add_comment"
                  /\ r.user \in Users
                  /\ comments'[c].author = r.user
                  /\ comments'[c].post = r.id
                  /\ r.id \in DOMAIN posts
                  /\ c = next_comment_id
            /\ (r.route = "add_comment" /\ r.id \notin DOMAIN posts)
                  => (response' = Http404 /\ UNCHANGED db)
            /\ next_post_id' >= next_post_id
            /\ next_comment_id' >= next_comment_id
            /\ \A p \in DOMAIN posts' : p < next_post_id'
            /\ \A c \in DOMAIN comments' : c < next_comment_id'
            /\ \A p \in DOMAIN posts \cap DOMAIN posts' :
                  posts'[p].author = posts[p].author
            /\ \A c \in DOMAIN comments \cap DOMAIN comments' :
                  /\ comments'[c].author = comments[c].author
                  /\ comments'[c].post = comments[c].post
      ]_vars

\* C9 witness: a comment was just created by a user who is not the author
\* of the post it is on
C9_Witness ==
    /\ request.route = "add_comment"
    /\ response.status = "redirect"
    /\ response.page = "post_detail"
    /\ \E c \in DOMAIN comments :
          /\ comments[c].author = request.user
          /\ comments[c].post = request.id
          /\ comments[c].author # posts[comments[c].post].author

\* C10: every row of every listing carries the exact number of stored
\* comments on that post, and the rows are in non-increasing pub_date order.
C10_CountAndOrder ==
    (request.route \in ListingRoutes /\ response.status = "ok") =>
        /\ \A i \in 1..Len(response.listing) :
              response.listing[i].comment_count =
                 Cardinality({c \in DOMAIN comments :
                                 comments[c].post = response.listing[i].id})
        /\ \A i, j \in 1..Len(response.listing) :
              i < j => posts[response.listing[i].id].pub_date
                          >= posts[response.listing[j].id].pub_date

\* C10 witness: a listing of two posts with different dates, one of them
\* commented
C10_Witness ==
    /\ request.route \in ListingRoutes
    /\ Len(response.listing) = 2
    /\ posts[response.listing[1].id].pub_date
          # posts[response.listing[2].id].pub_date
    /\ \E i \in 1..2 : response.listing[i].comment_count > 0

====
